---- MODULE Spec2Model ----
(***************************************************************************)
(* Schedulo: employee shift schedules and peer-to-peer shift swaps on a    *)
(* document store (Firestore).  The model follows the mutation paths of    *)
(* the dashboards (EmployeeDashboard, ManagerDashboard), the signup page,  *)
(* the database seeding and the thin store wrappers of firebaseService.    *)
(*                                                                         *)
(* Strings that the program inspects character by character (display      *)
(* names, e-mail addresses, identifiers) are sequences of one-character    *)
(* strings, so that split(' ')[0].toLowerCase() is computed, not assumed.  *)
(***************************************************************************)
EXTENDS Bags, FiniteSets, Integers, Sequences, TLC

VARIABLES users, shifts, swapRequests, activityLogs,
          nextUser, nextShift, nextRequest, moves,
          inbox, selectedShift, tasks, responses, finished,
          createdOwner,
          cancelled, lastSnapshot, lookups, calls, result

\* the state of the listeners and of the queries
ioVars == <<cancelled, lastSnapshot, lookups, calls, result>>

vars == <<users, shifts, swapRequests, activityLogs,
          nextUser, nextShift, nextRequest, moves,
          inbox, selectedShift, tasks, responses, finished,
          createdOwner, ioVars>>

----------------------------------------------------------------------------
(* Bounds of the model. *)

\* document ids the users collection can hand out
MaxUsers == 4
\* document ids the shifts collection can hand out
MaxShifts == 2
\* document ids the swapRequests collection can hand out
MaxRequests == 2
\* invocations of handleSwapResponse
MaxResponses == 2
\* drag-moves of the manager
MaxMoves == 1

----------------------------------------------------------------------------
(* Character strings. *)

UpperCase == <<"A","B","C","D","E","F","G","H","I","J","K","L","M",
               "N","O","P","Q","R","S","T","U","V","W","X","Y","Z">>
LowerCase == <<"a","b","c","d","e","f","g","h","i","j","k","l","m",
               "n","o","p","q","r","s","t","u","v","w","x","y","z">>

\* String.prototype.toLowerCase, one character
toLowerChar(c) ==
  IF \E i \in 1..Len(UpperCase) : UpperCase[i] = c
  THEN LowerCase[CHOOSE i \in 1..Len(UpperCase) : UpperCase[i] = c]
  ELSE c

\* String.prototype.toLowerCase
toLowerCase(s) == [i \in 1..Len(s) |-> toLowerChar(s[i])]

\* s.split(' ')[0]: the characters before the first space (all of s when it
\* has none)
splitFirst(s) ==
  LET spaces == {i \in 1..Len(s) : s[i] = " "}
  IN  IF spaces = {} THEN s
      ELSE SubSeq(s, 1, (CHOOSE i \in spaces : \A j \in spaces : i <= j) - 1)

\* name.split(' ')[0].toLowerCase(), as every call site writes it
shortId(name) == toLowerCase(splitFirst(name))

Digits == <<"1","2","3","4","5","6","7","8","9">>

\* ids the store generates on addDoc, one alphabet per collection
UserDocId(n)    == <<"U", Digits[n]>>
ShiftDocId(n)   == <<"S", Digits[n]>>
RequestDocId(n) == <<"R", Digits[n]>>

----------------------------------------------------------------------------
(* Data of the program. *)

JohnSmith    == <<"J","o","h","n"," ","S","m","i","t","h">>
SarahJohnson == <<"S","a","r","a","h"," ","J","o","h","n","s","o","n">>
AlexManager  == <<"A","l","e","x"," ","M","a","n","a","g","e","r">>
JohnDoe      == <<"J","o","h","n"," ","D","o","e">>

\* an address of the mock data, the domain abbreviated
Email(local) == local \o <<"@","x">>

Dates == <<"2024-11-15", "2024-11-16">>

ShiftTypes == {"day", "afternoon", "night"}

SHIFT_TIMES ==
  [t \in ShiftTypes |->
     CASE t = "day"       -> [start |-> "08:00", end |-> "16:00"]
       [] t = "afternoon" -> [start |-> "16:00", end |-> "00:00"]
       [] t = "night"     -> [start |-> "00:00", end |-> "08:00"]]

\* mockUsers (two of the eight employees, and the manager)
mockUsers ==
  << [id |-> <<"j","o","h","n">>, email |-> Email(<<"j","o","h","n">>),
      name |-> JohnSmith, role |-> "employee"],
     [id |-> <<"s","a","r","a","h">>, email |-> Email(<<"s","a","r","a","h">>),
      name |-> SarahJohnson, role |-> "employee"],
     [id |-> <<"m","a","n","a","g","e","r">>,
      email |-> Email(<<"m","a","n","a","g","e","r">>),
      name |-> AlexManager, role |-> "manager"] >>

\* mockShifts (the first shift generateShifts builds: s1, employees[0], day)
mockShifts ==
  << [id |-> <<"s","1">>, employeeId |-> mockUsers[1].id,
      employeeName |-> mockUsers[1].name, date |-> Dates[1], type |-> "day",
      startTime |-> "08:00", endTime |-> "16:00"] >>

\* mockSwapRequests (swap1: john -> sarah for s1, pending)
mockSwapRequests ==
  << [id |-> <<"s","w","a","p","1">>,
      fromEmployeeId |-> <<"j","o","h","n">>, fromEmployeeName |-> JohnSmith,
      toEmployeeId |-> <<"s","a","r","a","h">>, toEmployeeName |-> SarahJohnson,
      shiftId |-> <<"s","1">>, shift |-> mockShifts[1],
      status |-> "pending"] >>

\* mockActivityLogs (log1)
mockActivityLogs ==
  << [type |-> "swap_requested", userId |-> <<"j","o","h","n">>,
      userName |-> JohnSmith] >>

\* what a visitor may type into the signup form
SignupInputs ==
  { [name |-> JohnDoe, email |-> Email(<<"J","D">>)],
    [name |-> SarahJohnson, email |-> Email(<<"s","a","r","a","h">>)] }

NoShift == [id |-> <<>>]

----------------------------------------------------------------------------
(* The store. *)

\* no listener has fired, no query has been made
InitIo ==
  /\ cancelled = {}
  /\ lastSnapshot = {}
  /\ lookups = {}
  /\ calls = {}
  /\ result = [call |-> "none"]

Init ==
  /\ users = {}
  /\ shifts = {}
  /\ swapRequests = {}
  /\ activityLogs = EmptyBag
  /\ nextUser = 1
  /\ nextShift = 1
  /\ nextRequest = 1
  /\ moves = 0
  /\ inbox = <<>>
  /\ selectedShift = <<>>
  /\ tasks = {}
  /\ responses = 0
  /\ finished = {}
  /\ createdOwner = {}
  /\ InitIo

Employees == {u \in users : u.role = "employee"}
Managers  == {u \in users : u.role = "manager"}

\* updateDoc(doc(db, collection, id), data): rewrites the fields of the
\* document with that id; the collection is unchanged when there is none
\* (the caller sees the rejection)
updateDoc(coll, id, data) ==
  {IF d.id = id
   THEN [f \in DOMAIN d |-> IF f \in DOMAIN data THEN data[f] ELSE d[f]]
   ELSE d : d \in coll}

docExists(coll, id) == \E d \in coll : d.id = id

\* history, read by no handler: for each of the requests, the employeeId
\* the store holds for the shift it refers to at the moment the request is
\* stored
ownersOf(requests, coll) ==
  UNION {{[id |-> r.id, owner |-> s.employeeId] :
             s \in {x \in coll : x.id = r.shiftId}} : r \in requests}

\* addActivityLog
addActivityLog(type, user) ==
  activityLogs (+) SetToBag({[type |-> type, userId |-> user.id,
                              userName |-> user.name]})

\* a dashboard session starts with an empty inbox and no shift selected
openSessions(us) ==
  /\ inbox' = [u \in DOMAIN inbox \cup us |->
                 IF u \in DOMAIN inbox THEN inbox[u] ELSE {}]
  /\ selectedShift' = [u \in DOMAIN selectedShift \cup us |->
                 IF u \in DOMAIN selectedShift THEN selectedShift[u]
                 ELSE NoShift]

----------------------------------------------------------------------------
(* Accounts. *)

\* handleSignup: only the e-mail address is checked against the collection
Signup(inp) ==
  /\ nextUser <= MaxUsers
  /\ ~ \E u \in users : toLowerCase(u.email) = toLowerCase(inp.email)
  /\ LET u == [id |-> UserDocId(nextUser), email |-> inp.email,
               name |-> inp.name, role |-> "employee"]
     IN  /\ users' = users \cup {u}
         /\ openSessions({u})
  /\ nextUser' = nextUser + 1
  /\ UNCHANGED <<createdOwner, ioVars>>
  /\ UNCHANGED <<shifts, swapRequests, activityLogs, nextShift, nextRequest, moves,
                 tasks, responses, finished>>

\* seedFirebaseData, lines 24-32: the mock users under the ids the store
\* generates, n being the first free one
seedUsers(n) ==
  {[mockUsers[i] EXCEPT !.id = UserDocId(n + i - 1)] : i \in 1..Len(mockUsers)}

\* userIdMap[oldId]; <<>> stands for undefined
userIdMap(n, oldId) ==
  IF \E i \in 1..Len(mockUsers) : mockUsers[i].id = oldId
  THEN UserDocId(n + (CHOOSE i \in 1..Len(mockUsers) : mockUsers[i].id = oldId) - 1)
  ELSE <<>>

\* shiftIdMap[oldId]; <<>> stands for undefined
shiftIdMap(k, oldId) ==
  IF \E i \in 1..Len(mockShifts) : mockShifts[i].id = oldId
  THEN ShiftDocId(k + (CHOOSE i \in 1..Len(mockShifts) : mockShifts[i].id = oldId) - 1)
  ELSE <<>>

\* seedFirebaseData, lines 34-50: the mock shifts, employeeId mapped through
\* userIdMap
seedShifts(n, k) ==
  {[mockShifts[i] EXCEPT !.id = ShiftDocId(k + i - 1),
                         !.employeeId = userIdMap(n, mockShifts[i].employeeId)]
     : i \in {j \in 1..Len(mockShifts) :
                userIdMap(n, mockShifts[j].employeeId) # <<>>}}

\* seedFirebaseData, lines 52-71: the mock swap requests, both employee ids
\* mapped through userIdMap, shiftId through shiftIdMap; the embedded shift
\* is stored as the mock data has it
seedSwapRequests(n, k, r) ==
  {[mockSwapRequests[i] EXCEPT
      !.id = RequestDocId(r + i - 1),
      !.fromEmployeeId = userIdMap(n, mockSwapRequests[i].fromEmployeeId),
      !.toEmployeeId = userIdMap(n, mockSwapRequests[i].toEmployeeId),
      !.shiftId = IF shiftIdMap(k, mockSwapRequests[i].shiftId) # <<>>
                  THEN shiftIdMap(k, mockSwapRequests[i].shiftId)
                  ELSE mockSwapRequests[i].shiftId]
     : i \in {j \in 1..Len(mockSwapRequests) :
                /\ userIdMap(n, mockSwapRequests[j].fromEmployeeId) # <<>>
                /\ userIdMap(n, mockSwapRequests[j].toEmployeeId) # <<>>}}

\* seedFirebaseData, lines 74-87: the mock activity logs, userId mapped
seedActivityLogs(n) ==
  SetToBag({[mockActivityLogs[i] EXCEPT
               !.userId = userIdMap(n, mockActivityLogs[i].userId)]
              : i \in {j \in 1..Len(mockActivityLogs) :
                         userIdMap(n, mockActivityLogs[j].userId) # <<>>}})

\* seedFirebaseData: clears the four collections and stores the mock data
seedFirebaseData ==
  /\ nextUser + Len(mockUsers) - 1 <= MaxUsers
  /\ nextShift + Len(mockShifts) - 1 <= MaxShifts
  /\ nextRequest + Len(mockSwapRequests) - 1 <= MaxRequests
  /\ users' = seedUsers(nextUser)
  /\ shifts' = seedShifts(nextUser, nextShift)
  /\ swapRequests' = seedSwapRequests(nextUser, nextShift, nextRequest)
  /\ activityLogs' = seedActivityLogs(nextUser)
  /\ openSessions({u \in seedUsers(nextUser) : u.role = "employee"})
  /\ nextUser' = nextUser + Len(mockUsers)
  /\ nextShift' = nextShift + Len(mockShifts)
  /\ nextRequest' = nextRequest + Len(mockSwapRequests)
  /\ createdOwner' = ownersOf(swapRequests', shifts')
  /\ UNCHANGED ioVars
  /\ UNCHANGED <<moves, tasks, responses, finished>>

----------------------------------------------------------------------------
(* Manager dashboard.  Each handler awaits its store write and then the
   write of its activity-log entry. *)

\* what the manager enters in the create-shift form: a date and a type
\* (handleTypeChange sets the times of the type)
CreateInputs == { [date |-> Dates[1], type |-> "afternoon"] }

\* CreateShiftModal.handleSubmit and ManagerDashboard.handleCreateShift
handleCreateShift(m, employee, date, type) ==
  /\ nextShift <= MaxShifts
  /\ shifts' = shifts \cup
       {[id |-> ShiftDocId(nextShift), employeeId |-> shortId(employee.name),
         employeeName |-> employee.name, date |-> date, type |-> type,
         startTime |-> SHIFT_TIMES[type].start,
         endTime |-> SHIFT_TIMES[type].end]}
  /\ nextShift' = nextShift + 1
  /\ activityLogs' = addActivityLog("shift_created", m)
  /\ UNCHANGED <<createdOwner, ioVars>>
  /\ UNCHANGED <<users, swapRequests, nextUser, nextRequest, moves, inbox,
                 selectedShift, tasks, responses, finished>>

\* ManagerDashboard.handleDrop: the dragged shift goes to the employee and
\* the date of the cell it is dropped on
handleDrop(m, draggedShift, employee, date) ==
  /\ moves < MaxMoves
  /\ docExists(shifts, draggedShift.id)
  /\ shifts' = updateDoc(shifts, draggedShift.id,
                 [employeeId |-> shortId(employee.name),
                  employeeName |-> employee.name, date |-> date])
  /\ moves' = moves + 1
  /\ activityLogs' = addActivityLog("shift_updated", m)
  /\ UNCHANGED <<createdOwner, ioVars>>
  /\ UNCHANGED <<users, swapRequests, nextUser, nextShift, nextRequest, inbox,
                 selectedShift, tasks, responses, finished>>

\* ManagerDashboard.handleDeleteShift
handleDeleteShift(m, shift) ==
  /\ shifts' = {s \in shifts : s.id # shift.id}
  /\ activityLogs' = addActivityLog("shift_deleted", m)
  /\ UNCHANGED <<createdOwner, ioVars>>
  /\ UNCHANGED <<users, swapRequests, nextUser, nextShift, nextRequest, moves,
                 inbox, selectedShift, tasks, responses, finished,
          createdOwner, ioVars>>

----------------------------------------------------------------------------
(* Employee dashboard: requesting a swap. *)

\* the shifts the dashboard of user u shows: those whose employeeId is the
\* short identifier of u
ownShifts(u) == {s \in shifts : s.employeeId = shortId(u.name)}

\* handleSwapRequest: the shift is remembered and the dialog opens
handleSwapRequest(u, shift) ==
  /\ shift \in ownShifts(u)
  /\ selectedShift[u] # shift
  /\ selectedShift' = [selectedShift EXCEPT ![u] = shift]
  /\ UNCHANGED <<createdOwner, ioVars>>
  /\ UNCHANGED <<users, shifts, swapRequests, activityLogs, nextUser,
                 nextShift, nextRequest, moves, inbox, tasks, responses, finished>>

\* ShiftSwapModal: the employees the dialog offers to user u
availableEmployees(u) == {e \in Employees : e.id # u.id}

\* handleSwapConfirm, and the dialog closing behind it
handleSwapConfirm(u, target, logOk) ==
  /\ selectedShift[u] # NoShift
  /\ target \in availableEmployees(u)
  /\ nextRequest <= MaxRequests
  /\ swapRequests' = swapRequests \cup
       {[id |-> RequestDocId(nextRequest),
         fromEmployeeId |-> shortId(u.name), fromEmployeeName |-> u.name,
         toEmployeeId |-> shortId(target.name), toEmployeeName |-> target.name,
         shiftId |-> selectedShift[u].id, shift |-> selectedShift[u],
         status |-> "pending"]}
  /\ nextRequest' = nextRequest + 1
  /\ activityLogs' = IF logOk THEN addActivityLog("swap_requested", u)
                     ELSE activityLogs
  /\ selectedShift' = [selectedShift EXCEPT ![u] = NoShift]
  /\ createdOwner' = createdOwner \cup
       ownersOf({[id |-> RequestDocId(nextRequest),
                  shiftId |-> selectedShift[u].id]}, shifts)
  /\ UNCHANGED ioVars
  /\ UNCHANGED <<users, shifts, nextUser, nextShift, moves, inbox, tasks, responses,
                 finished>>

----------------------------------------------------------------------------
(* Employee dashboard: the inbox and the response to a request. *)

\* subscribeToSwapRequests(shortEmployeeId, setSwapRequests): a snapshot of
\* the requests addressed to the short identifier of u replaces the inbox
deliverSwapRequests(u) ==
  /\ inbox[u] # {r \in swapRequests : r.toEmployeeId = shortId(u.name)}
  /\ inbox' = [inbox EXCEPT ![u] =
                 {r \in swapRequests : r.toEmployeeId = shortId(u.name)}]
  /\ UNCHANGED <<createdOwner, ioVars>>
  /\ UNCHANGED <<users, shifts, swapRequests, activityLogs, nextUser,
                 nextShift, nextRequest, moves, selectedShift, tasks, responses,
                 finished>>

\* mutant: the shift is rewritten whatever the answer
transfersShiftAlways(request, accept) == request.shift # NoShift

\* mutant: the shift is never rewritten
transfersShiftNever(request, accept) == FALSE

\* handleSwapResponse, line 159: accept && request.shift
transfersShift(request, accept) == accept /\ request.shift # NoShift

\* the status of the stored request with that id ("missing" when the
\* collection has none)
storedStatus(id) ==
  IF docExists(swapRequests, id)
  THEN (CHOOSE r \in swapRequests : r.id = id).status
  ELSE "missing"

\* ConflictsSidebar shows the Accept and Decline buttons of a request of the
\* inbox while its copy there is pending; handleSwapResponse starts with the
\* copy it finds in the inbox (stored remembers what the store held at
\* the call; the handler never reads it)
startSwapResponse(u, request, accept) ==
  /\ request \in inbox[u]
  /\ request.status = "pending"
  /\ responses < MaxResponses
  /\ tasks' = tasks \cup
       {[user |-> u, request |-> request, accept |-> accept,
         pc |-> IF transfersShift(request, accept) THEN "updateShift"
                ELSE "updateSwapRequest",
         wroteShift |-> FALSE, wroteStatus |-> FALSE,
         stored |-> storedStatus(request.id)]}
  /\ responses' = responses + 1
  /\ UNCHANGED <<createdOwner, ioVars>>
  /\ UNCHANGED <<users, shifts, swapRequests, activityLogs, nextUser,
                 nextShift, nextRequest, moves, inbox, selectedShift,
                 finished>>

\* the handler has ended and the toast is shown
ended(t, toast) ==
  [user |-> t.user, request |-> t.request, accept |-> t.accept,
   wroteShift |-> t.wroteShift, wroteStatus |-> t.wroteStatus,
   stored |-> t.stored, toast |-> toast]

\* mutant: the accept writes the whole embedded shift back, with the new
\* owner
transferDataWholeShift(request) ==
  [request.shift EXCEPT !.employeeId = request.toEmployeeId,
                        !.employeeName = request.toEmployeeName]

\* lines 162-165: the fields the accept writes to the shift
transferData(request) ==
  [employeeId |-> request.toEmployeeId,
   employeeName |-> request.toEmployeeName]

\* mutant: a rejected shift update is swallowed and the handler goes on to
\* the status update
awaitUpdateShiftSwallowing(t, ok) ==
  /\ t \in tasks
  /\ t.pc = "updateShift"
  /\ IF ok /\ docExists(shifts, t.request.shift.id)
     THEN /\ shifts' = updateDoc(shifts, t.request.shift.id,
                         transferData(t.request))
          /\ tasks' = (tasks \ {t}) \cup
               {[t EXCEPT !.pc = "updateSwapRequest", !.wroteShift = TRUE]}
     ELSE /\ tasks' = (tasks \ {t}) \cup
               {[t EXCEPT !.pc = "updateSwapRequest"]}
          /\ UNCHANGED shifts
  /\ UNCHANGED <<createdOwner, ioVars>>
  /\ UNCHANGED <<users, swapRequests, activityLogs, nextUser, nextShift,
                 nextRequest, moves, inbox, selectedShift, responses,
                 finished>>

\* await updateShift(request.shift.id, {employeeId, employeeName}); a
\* rejected write ends the handler in the catch block
awaitUpdateShift(t, ok) ==
  /\ t \in tasks
  /\ t.pc = "updateShift"
  /\ IF ok /\ docExists(shifts, t.request.shift.id)
     THEN /\ shifts' = updateDoc(shifts, t.request.shift.id,
                         transferData(t.request))
          /\ tasks' = (tasks \ {t}) \cup
               {[t EXCEPT !.pc = "updateSwapRequest", !.wroteShift = TRUE]}
          /\ UNCHANGED finished
     ELSE /\ tasks' = tasks \ {t}
          /\ finished' = finished \cup {ended(t, "Error")}
          /\ UNCHANGED shifts
  /\ UNCHANGED <<createdOwner, ioVars>>
  /\ UNCHANGED <<users, swapRequests, activityLogs, nextUser, nextShift,
                 nextRequest, moves, inbox, selectedShift, responses>>

\* await updateSwapRequest(requestId, {status})
awaitUpdateSwapRequest(t, ok) ==
  /\ t \in tasks
  /\ t.pc = "updateSwapRequest"
  /\ IF ok /\ docExists(swapRequests, t.request.id)
     THEN /\ swapRequests' = updateDoc(swapRequests, t.request.id,
                [status |-> IF t.accept THEN "accepted" ELSE "declined"])
          /\ tasks' = (tasks \ {t}) \cup
               {[t EXCEPT !.pc = "addActivityLog", !.wroteStatus = TRUE]}
          /\ UNCHANGED finished
     ELSE /\ tasks' = tasks \ {t}
          /\ finished' = finished \cup {ended(t, "Error")}
          /\ UNCHANGED swapRequests
  /\ UNCHANGED <<createdOwner, ioVars>>
  /\ UNCHANGED <<users, shifts, activityLogs, nextUser, nextShift,
                 nextRequest, moves, inbox, selectedShift, responses>>

\* await addActivityLog(...), then the toast "Swap Accepted" or "Swap
\* Declined"
awaitAddActivityLog(t, ok) ==
  /\ t \in tasks
  /\ t.pc = "addActivityLog"
  /\ tasks' = tasks \ {t}
  /\ IF ok
     THEN /\ activityLogs' = addActivityLog(
                IF t.accept THEN "swap_accepted" ELSE "swap_declined", t.user)
          /\ finished' = finished \cup
               {ended(t, IF t.accept THEN "Swap Accepted" ELSE "Swap Declined")}
     ELSE /\ finished' = finished \cup {ended(t, "Error")}
          /\ UNCHANGED activityLogs
  /\ UNCHANGED <<createdOwner, ioVars>>
  /\ UNCHANGED <<users, shifts, swapRequests, nextUser, nextShift,
                 nextRequest, moves, inbox, selectedShift, responses>>

----------------------------------------------------------------------------
(* Specifications. *)

\* the store as seedFirebaseData leaves an empty database, every employee
\* with a dashboard open
InitSeeded ==
  /\ users = seedUsers(1)
  /\ shifts = seedShifts(1, 1)
  /\ swapRequests = seedSwapRequests(1, 1, 1)
  /\ activityLogs = seedActivityLogs(1)
  /\ nextUser = 1 + Len(mockUsers)
  /\ nextShift = 1 + Len(mockShifts)
  /\ nextRequest = 1 + Len(mockSwapRequests)
  /\ moves = 0
  /\ inbox = [u \in {v \in seedUsers(1) : v.role = "employee"} |-> {}]
  /\ selectedShift =
       [u \in {v \in seedUsers(1) : v.role = "employee"} |-> NoShift]
  /\ tasks = {}
  /\ responses = 0
  /\ finished = {}
  /\ createdOwner = ownersOf(seedSwapRequests(1, 1, 1), seedShifts(1, 1))
  /\ InitIo

SignupStep == \E inp \in SignupInputs : Signup(inp)

CreateStep ==
  \E m \in Managers, e \in Employees, inp \in CreateInputs :
     handleCreateShift(m, e, inp.date, inp.type)

DropStep ==
  \E m \in Managers, s \in shifts, e \in Employees, i \in 1..Len(Dates) :
     handleDrop(m, s, e, Dates[i])

DeleteStep == \E m \in Managers, s \in shifts : handleDeleteShift(m, s)

RequestStep ==
  \/ \E u \in DOMAIN inbox, s \in shifts : handleSwapRequest(u, s)
  \/ \E u \in DOMAIN inbox, e \in Employees, logOk \in BOOLEAN :
        handleSwapConfirm(u, e, logOk)

RespondStep ==
  \/ \E u \in DOMAIN inbox : deliverSwapRequests(u)
  \/ \E u \in DOMAIN inbox, accept \in BOOLEAN :
        \E r \in inbox[u] : startSwapResponse(u, r, accept)
  \/ \E t \in tasks, ok \in BOOLEAN : awaitUpdateShift(t, ok)
  \/ \E t \in tasks, ok \in BOOLEAN : awaitUpdateSwapRequest(t, ok)
  \/ \E t \in tasks, ok \in BOOLEAN : awaitAddActivityLog(t, ok)

\* the swap protocol on a seeded database
Next ==
  \/ CreateStep
  \/ DropStep
  \/ DeleteStep
  \/ RequestStep
  \/ RespondStep

Spec == InitSeeded /\ [][Next]_vars

\* accounts and seeding, from the empty database
NextAccounts ==
  \/ SignupStep
  \/ seedFirebaseData
  \/ CreateStep
  \/ RequestStep

SpecAccounts == Init /\ [][NextAccounts]_vars

\* the swap protocol with signups, on a seeded database
NextInbox ==
  \/ SignupStep
  \/ CreateStep
  \/ RequestStep
  \/ RespondStep

SpecInbox == InitSeeded /\ [][NextInbox]_vars

----------------------------------------------------------------------------
(* The inbox listener under the delivery guarantee of the store: a listener
   that has a new snapshot to deliver is eventually called. *)

ListenerStep == \E u \in DOMAIN inbox : deliverSwapRequests(u)

NextObserve ==
  \/ SignupStep
  \/ CreateStep
  \/ RequestStep
  \/ ListenerStep

SpecObserve == InitSeeded /\ [][NextObserve]_vars /\ WF_vars(ListenerStep)

----------------------------------------------------------------------------
(* subscribeToSwapRequests, with the enrichment lookups of requests stored
   without an embedded shift. *)

\* the documents the query where('toEmployeeId', '==', employeeId) selects
inboxQuery(u) == {r \in swapRequests : r.toEmployeeId = shortId(u.name)}

\* line 154: !req.shift && req.shiftId
needsLookup(req) == req.shift = NoShift /\ req.shiftId # <<>>

\* a call of the subscriber callback
called(u, docs, batch, outstanding, failed) ==
  [user |-> u, snapshot |-> docs, batch |-> batch,
   outstanding |-> outstanding, failed |-> failed,
   afterCancel |-> u \in cancelled]

\* the listener of a subscription that was not cancelled fires with the
\* documents of the query; when no document needs a lookup the handler
\* reaches callback(enrichedRequests) without leaving the event loop's turn
onSnapshot(u) ==
  /\ u \notin cancelled
  /\ [user |-> u, docs |-> inboxQuery(u)] \notin lastSnapshot
  /\ lastSnapshot' = {l \in lastSnapshot : l.user # u} \cup
                       {[user |-> u, docs |-> inboxQuery(u)]}
  /\ LET docs == inboxQuery(u)
         out  == {r.id : r \in {d \in docs : needsLookup(d)}}
     IN  IF out = {}
         THEN /\ inbox' = [inbox EXCEPT ![u] = docs]
              /\ calls' = calls \cup {called(u, docs, docs, {}, {})}
              /\ UNCHANGED lookups
         ELSE /\ lookups' = lookups \cup
                   {[user |-> u, snapshot |-> docs, batch |-> docs,
                     outstanding |-> out, failed |-> {}]}
              /\ UNCHANGED <<inbox, calls>>
  /\ UNCHANGED <<users, shifts, swapRequests, activityLogs, nextUser,
                 nextShift, nextRequest, moves, selectedShift, tasks,
                 responses, finished, createdOwner, cancelled, result>>

\* mutant: a rejected getDoc rejects Promise.all and the handler ends
settleRejecting(t, id, ok) ==
  IF ~ok THEN {}
  ELSE LET req == CHOOSE r \in t.batch : r.id = id
       IN  {[t EXCEPT !.outstanding = @ \ {id},
                      !.batch = (@ \ {req}) \cup
                        {IF docExists(shifts, req.shiftId)
                         THEN [req EXCEPT !.shift =
                                 CHOOSE x \in shifts : x.id = req.shiftId]
                         ELSE req}]}

\* lines 153-164: the lookup of one request settles; the shift found is set
\* on the request, a missing shift and a rejected getDoc leave it as it is
settle(t, id, ok) ==
  LET req == CHOOSE r \in t.batch : r.id = id
      found == ok /\ docExists(shifts, req.shiftId)
  IN  {[t EXCEPT !.outstanding = @ \ {id},
                 !.failed = IF found THEN @ ELSE @ \cup {id},
                 !.batch = (@ \ {req}) \cup
                   {IF found
                    THEN [req EXCEPT !.shift =
                            CHOOSE x \in shifts : x.id = req.shiftId]
                    ELSE req}]}

\* await getDoc(doc(db, 'shifts', req.shiftId)) of one request of a snapshot
awaitGetDoc(t, id, ok) ==
  /\ t \in lookups
  /\ id \in t.outstanding
  /\ lookups' = (lookups \ {t}) \cup settle(t, id, ok)
  /\ UNCHANGED <<users, shifts, swapRequests, activityLogs, nextUser,
                 nextShift, nextRequest, moves, inbox, selectedShift, tasks,
                 responses, finished, createdOwner, cancelled, lastSnapshot,
                 calls, result>>

\* mutant: the callback does not wait for the lookups
allSettledAny(t) == TRUE

\* await Promise.all(...): every lookup of the snapshot has settled
allSettled(t) == t.outstanding = {}

\* callback(enrichedRequests), the callback being setSwapRequests
invokeCallback(t) ==
  /\ t \in lookups
  /\ allSettled(t)
  /\ lookups' = lookups \ {t}
  /\ inbox' = [inbox EXCEPT ![t.user] = t.batch]
  /\ calls' = calls \cup
       {called(t.user, t.snapshot, t.batch, t.outstanding, t.failed)}
  /\ UNCHANGED <<users, shifts, swapRequests, activityLogs, nextUser,
                 nextShift, nextRequest, moves, selectedShift, tasks,
                 responses, finished, createdOwner, cancelled, lastSnapshot,
                 result>>

\* the cleanup of the effect calls the function subscribeToSwapRequests
\* returned
unsubscribeSwaps(u) ==
  /\ u \notin cancelled
  /\ cancelled' = cancelled \cup {u}
  /\ UNCHANGED <<users, shifts, swapRequests, activityLogs, nextUser,
                 nextShift, nextRequest, moves, inbox, selectedShift, tasks,
                 responses, finished, createdOwner, lastSnapshot, lookups,
                 calls, result>>

\* requests stored without an embedded shift: one for the seeded shift, one
\* for a shift that does not exist; and one stored with its shift
StoredRequests ==
  { [id |-> RequestDocId(1),
     fromEmployeeId |-> shortId(JohnSmith), fromEmployeeName |-> JohnSmith,
     toEmployeeId |-> shortId(SarahJohnson), toEmployeeName |-> SarahJohnson,
     shiftId |-> ShiftDocId(1), shift |-> NoShift, status |-> "pending"],
    [id |-> RequestDocId(2),
     fromEmployeeId |-> shortId(JohnSmith), fromEmployeeName |-> JohnSmith,
     toEmployeeId |-> shortId(SarahJohnson), toEmployeeName |-> SarahJohnson,
     shiftId |-> ShiftDocId(MaxShifts + 1), shift |-> NoShift,
     status |-> "pending"],
    [id |-> RequestDocId(3),
     fromEmployeeId |-> shortId(SarahJohnson), fromEmployeeName |-> SarahJohnson,
     toEmployeeId |-> shortId(JohnSmith), toEmployeeName |-> JohnSmith,
     shiftId |-> ShiftDocId(1),
     shift |-> CHOOSE x \in seedShifts(1, 1) : x.id = ShiftDocId(1),
     status |-> "pending"] }

\* the seeded accounts and shifts, any of the stored requests
InitStored ==
  /\ users = seedUsers(1)
  /\ shifts = seedShifts(1, 1)
  /\ swapRequests \in SUBSET StoredRequests
  /\ activityLogs = EmptyBag
  /\ nextUser = 1 + Len(mockUsers)
  /\ nextShift = 1 + Len(mockShifts)
  /\ nextRequest = 1 + Cardinality(StoredRequests)
  /\ moves = 0
  /\ inbox = [u \in {v \in seedUsers(1) : v.role = "employee"} |-> {}]
  /\ selectedShift =
       [u \in {v \in seedUsers(1) : v.role = "employee"} |-> NoShift]
  /\ tasks = {}
  /\ responses = 0
  /\ finished = {}
  /\ createdOwner = {}
  /\ InitIo

SnapshotStep == \E u \in DOMAIN inbox : onSnapshot(u)

LookupStep ==
  \E t \in lookups, ok \in BOOLEAN : \E id \in t.outstanding :
     awaitGetDoc(t, id, ok)

CallbackStep == \E t \in lookups : invokeCallback(t)

UnsubscribeStep == \E u \in DOMAIN inbox : unsubscribeSwaps(u)

NextSubscribe ==
  \/ DeleteStep
  \/ SnapshotStep
  \/ LookupStep
  \/ CallbackStep
  \/ UnsubscribeStep

SpecSubscribe == InitStored /\ [][NextSubscribe]_vars

----------------------------------------------------------------------------
(* handleSwapResponse called with the id of a request that the store or the
   local list of the session does not hold. *)

\* the ids a response may be called with: those the store hands out, and
\* one more
RequestIds == {RequestDocId(n) : n \in 1..(MaxRequests + 1)}

\* handleSwapResponse, lines 156-157: no request of the local list has the
\* id and the handler returns; no store call is made and no toast is shown
respondUnknown(u, requestId, accept) ==
  /\ ~ \E r \in inbox[u] : r.id = requestId
  /\ responses < MaxResponses
  /\ responses' = responses + 1
  /\ finished' = finished \cup
       {ended([user |-> u, request |-> [id |-> requestId],
               accept |-> accept, wroteShift |-> FALSE,
               wroteStatus |-> FALSE, stored |-> storedStatus(requestId)],
              "none")}
  /\ UNCHANGED <<users, shifts, swapRequests, activityLogs, nextUser,
                 nextShift, nextRequest, moves, inbox, selectedShift, tasks,
                 createdOwner, ioVars>>

\* handleDeleteAllSwaps of the diagnostics page: every document of the
\* swapRequests collection is deleted
handleDeleteAllSwaps ==
  /\ swapRequests # {}
  /\ swapRequests' = {}
  /\ UNCHANGED <<users, shifts, activityLogs, nextUser, nextShift,
                 nextRequest, moves, inbox, selectedShift, tasks, responses,
                 finished, createdOwner, ioVars>>

UnknownStep ==
  \E u \in DOMAIN inbox, id \in RequestIds, accept \in BOOLEAN :
     respondUnknown(u, id, accept)

NextRespond ==
  \/ CreateStep
  \/ RequestStep
  \/ RespondStep
  \/ UnknownStep
  \/ handleDeleteAllSwaps

SpecRespond == InitSeeded /\ [][NextRespond]_vars

----------------------------------------------------------------------------
(* getShiftsByEmployee: the ordered query and its client-side-sort
   fallback. *)

\* the characters of ids and dates, in the order of their code points
CodePoints == <<"-", "0">> \o Digits \o <<":">> \o UpperCase \o LowerCase

codePoint(c) == CHOOSE i \in 1..Len(CodePoints) : CodePoints[i] = c

\* the order of the store on strings: by code point, a prefix first
lessChars(a, b) ==
  \E i \in 1..Len(b) :
     /\ \A j \in 1..(i - 1) : j <= Len(a) /\ a[j] = b[j]
     /\ \/ i = Len(a) + 1
        \/ i <= Len(a) /\ codePoint(a[i]) < codePoint(b[i])

\* the characters of the dates of the model
DateChars ==
  << <<"2","0","2","4","-","1","1","-","1","5">>,
     <<"2","0","2","4","-","1","1","-","1","6">> >>

charsOf(date) == DateChars[CHOOSE i \in 1..Len(Dates) : Dates[i] = date]

\* the characters of ISO dates in the order of the collation localeCompare
\* uses: the hyphen, then the digits
Collation == <<"-", "0">> \o Digits

collationKey(c) == CHOOSE i \in 1..Len(Collation) : Collation[i] = c

\* a.localeCompare(b) on dates: negative, zero or positive
localeCompare(a, b) ==
  LET x == charsOf(a)
      y == charsOf(b)
      differ == {i \in 1..Len(x) : i > Len(y) \/ x[i] # y[i]}
  IN  IF differ = {}
      THEN IF Len(x) = Len(y) THEN 0 ELSE -1
      ELSE LET i == CHOOSE k \in differ : \A l \in differ : k <= l
           IN  IF i > Len(y) THEN 1
               ELSE IF collationKey(x[i]) < collationKey(y[i]) THEN -1 ELSE 1

\* where('employeeId', '==', employeeId)
whereEmployeeId(coll, employeeId) == {d \in coll : d.employeeId = employeeId}

\* the order of a query without orderBy: by document id
byDocumentId(a, b) == lessChars(a.id, b.id)

\* orderBy('date', 'asc'): by date, documents of one date by document id
byDateThenId(a, b) ==
  \/ lessChars(charsOf(a.date), charsOf(b.date))
  \/ a.date = b.date /\ lessChars(a.id, b.id)

\* querySnapshot.docs of a query without orderBy
docsById(docs) ==
  CHOOSE q \in [1..Cardinality(docs) -> docs] :
     \A i, j \in 1..Cardinality(docs) :
        i < j => q[i] # q[j] /\ ~byDocumentId(q[j], q[i])

\* querySnapshot.docs of a query with orderBy('date', 'asc')
docsByDate(docs) ==
  CHOOSE q \in [1..Cardinality(docs) -> docs] :
     \A i, j \in 1..Cardinality(docs) :
        i < j => q[i] # q[j] /\ ~byDateThenId(q[j], q[i])

\* mutant: the ordered query forgets its orderBy
orderedQueryUnordered(coll, employeeId) ==
  docsById(whereEmployeeId(coll, employeeId))

\* lines 61-67: where('employeeId', '==', employeeId), orderBy('date', 'asc')
orderedQuery(coll, employeeId) ==
  docsByDate(whereEmployeeId(coll, employeeId))

\* mutant: the fallback returns the documents as the query gave them
arraySortNone(q) == q

\* shifts.sort((a, b) => a.date.localeCompare(b.date)): Array.prototype.sort
\* is stable
arraySort(q) ==
  LET n == Len(q)
      p == CHOOSE f \in [1..n -> 1..n] :
             \A i, j \in 1..n :
                i < j =>
                   \/ localeCompare(q[f[i]].date, q[f[j]].date) < 0
                   \/ /\ localeCompare(q[f[i]].date, q[f[j]].date) = 0
                      /\ f[i] < f[j]
  IN  [i \in 1..n |-> q[p[i]]]

\* lines 72-78: the query without orderBy, sorted by the client
fallbackQuery(coll, employeeId) ==
  arraySort(docsById(whereEmployeeId(coll, employeeId)))

\* what a getDocs call may end with: "ok" or the code of the error it throws
QueryOutcomes == {"ok", "failed-precondition", "unavailable",
                  "permission-denied"}

\* mutant: every error of the ordered query takes the fallback
usesFallbackAlways(code) == TRUE

\* line 70: error.code === 'failed-precondition'
usesFallback(code) == code = "failed-precondition"

\* what getShiftsByEmployee(employeeId) gives its caller, ordered and
\* fallback being the outcomes of its two getDocs calls
queryResult(employeeId, ordered, fallback) ==
  LET call == [call |-> "getShiftsByEmployee", employeeId |-> employeeId,
               ordered |-> ordered, fallback |-> fallback,
               store |-> shifts]
  IN  IF ordered = "ok"
      THEN call @@ [path |-> "ordered", outcome |-> "returns",
                    list |-> orderedQuery(shifts, employeeId),
                    error |-> "none"]
      ELSE IF usesFallback(ordered)
      THEN IF fallback = "ok"
           THEN call @@ [path |-> "fallback", outcome |-> "returns",
                         list |-> fallbackQuery(shifts, employeeId),
                         error |-> "none"]
           ELSE call @@ [path |-> "fallback", outcome |-> "throws",
                         list |-> <<>>, error |-> fallback]
      ELSE call @@ [path |-> "ordered", outcome |-> "throws",
                    list |-> <<>>, error |-> ordered]

\* getShiftsByEmployee
getShiftsByEmployee(employeeId, ordered, fallback) ==
  /\ result' = queryResult(employeeId, ordered, fallback)
  /\ UNCHANGED <<users, shifts, swapRequests, activityLogs, nextUser,
                 nextShift, nextRequest, moves, inbox, selectedShift, tasks,
                 responses, finished, createdOwner, cancelled, lastSnapshot,
                 lookups, calls>>

\* the employee ids a caller asks for: the short ids of the accounts
\* (loadData) and the ids the shifts are stored under (diagnostics)
QueryIds ==
  {shortId(u.name) : u \in Employees} \cup {d.employeeId : d \in shifts}

QueryStep ==
  \E employeeId \in QueryIds, ordered \in QueryOutcomes,
     fallback \in QueryOutcomes :
     getShiftsByEmployee(employeeId, ordered, fallback)

NextQuery ==
  \/ CreateStep
  \/ DropStep
  \/ QueryStep

SpecQuery == InitSeeded /\ [][NextQuery]_vars

----------------------------------------------------------------------------
(* The short identifier at its call sites. *)

\* the longest display name tried
MaxNameLen == 3

\* the characters of the display names tried: a capital, a small letter, a
\* space and a tab
NameChars == {"J", "o", " ", "\t"}

NameInputs == UNION {[1..k -> NameChars] : k \in 0..MaxNameLen}

\* the places that compute name.split(' ')[0].toLowerCase()
CallSites == {"handleSwapConfirm", "useEffect", "handleSubmit", "handleDrop",
              "handleSignup", "handleCheckShiftsByEmployee"}

\* an empty store and a display name
InitNames ==
  /\ users = {}
  /\ shifts = {}
  /\ swapRequests = {}
  /\ activityLogs = EmptyBag
  /\ nextUser = 1
  /\ nextShift = 1
  /\ nextRequest = 1
  /\ moves = 0
  /\ inbox = <<>>
  /\ selectedShift = <<>>
  /\ tasks = {}
  /\ responses = 0
  /\ finished = {}
  /\ createdOwner = {}
  /\ cancelled = {}
  /\ lastSnapshot = {}
  /\ lookups = {}
  /\ calls = {}
  /\ result \in {[call |-> "name", name |-> n] : n \in NameInputs}

\* the call site computes the short identifier of the name
computeShortId(site) ==
  /\ result.call \in {"name", "shortId"}
  /\ result' = [call |-> "shortId", site |-> site, name |-> result.name,
                value |-> shortId(result.name)]
  /\ result' # result
  /\ UNCHANGED <<users, shifts, swapRequests, activityLogs, nextUser,
                 nextShift, nextRequest, moves, inbox, selectedShift, tasks,
                 responses, finished, createdOwner, cancelled, lastSnapshot,
                 lookups, calls>>

NextShortId == \E site \in CallSites : computeShortId(site)

SpecShortId == InitNames /\ [][NextShortId]_vars

----------------------------------------------------------------------------
(* Diagnostic page: the swap consistency check and the duplicate scan. *)

\* getUsers, getShifts, getSwapRequests: the documents of a collection as
\* getDocs returns them
getDocs(coll) == docsById(coll)

\* Array.from(new Set(q)): the elements of q, each once, in the order of
\* their first occurrence
arrayFromSet(q) ==
  LET first == {i \in 1..Len(q) : \A j \in 1..(i - 1) : q[j] # q[i]}
      at == CHOOSE f \in [1..Cardinality(first) -> first] :
               \A i, j \in 1..Cardinality(first) : i < j => f[i] < f[j]
  IN  [i \in 1..Cardinality(first) |-> q[at[i]]]

\* new Set(q).has(x)
has(q, x) == \E i \in 1..Len(q) : q[i] = x

\* array.filter(id => !shiftEmployeeIds.has(id))
notIn(q, owners) ==
  LET keep == {i \in 1..Len(q) : ~has(owners, q[i])}
      at == CHOOSE f \in [1..Cardinality(keep) -> keep] :
               \A i, j \in 1..Cardinality(keep) : i < j => f[i] < f[j]
  IN  [i \in 1..Cardinality(keep) |-> q[at[i]]]

\* shifts.map(s => s.employeeId)
employeeIds(q) == [i \in 1..Len(q) |-> q[i].employeeId]

\* swaps.map(s => s.fromEmployeeId)
fromEmployeeIds(q) == [i \in 1..Len(q) |-> q[i].fromEmployeeId]

\* swaps.map(s => s.toEmployeeId)
toEmployeeIds(q) == [i \in 1..Len(q) |-> q[i].toEmployeeId]

\* handleTestSwapRequests, lines 243-263: the lines the analysis logs about
\* mismatches, owners being the employeeIds of the shifts
mismatchLines(owners, swaps) ==
  LET mismatchedFrom == notIn(arrayFromSet(fromEmployeeIds(swaps)), owners)
      mismatchedTo   == notIn(arrayFromSet(toEmployeeIds(swaps)), owners)
  IN  (IF mismatchedFrom # <<>>
       THEN << [line |-> "MISMATCH", field |-> "fromEmployeeId",
                ids |-> mismatchedFrom] >>
       ELSE <<>>)
      \o
      (IF mismatchedTo # <<>>
       THEN << [line |-> "MISMATCH", field |-> "toEmployeeId",
                ids |-> mismatchedTo] >>
       ELSE <<>>)
      \o
      (IF mismatchedFrom = <<>> /\ mismatchedTo = <<>>
       THEN << [line |-> "match", field |-> "none", ids |-> <<>>] >>
       ELSE <<>>)

\* handleTestSwapRequests: the analysis of the stored shifts and requests
testSwapRequestsReport ==
  LET shiftEmployeeIds == arrayFromSet(employeeIds(getDocs(shifts)))
      swaps == getDocs(swapRequests)
  IN  IF Len(swaps) > 0 THEN mismatchLines(shiftEmployeeIds, swaps) ELSE <<>>

\* handleTestSwapFeature, lines 547-561: step 4, the ids of either field
\* taken together
featureMismatchLines(owners, swapsData) ==
  LET allSwapIds == arrayFromSet(arrayFromSet(fromEmployeeIds(swapsData))
                                 \o arrayFromSet(toEmployeeIds(swapsData)))
      mismatches == notIn(allSwapIds, owners)
  IN  IF mismatches # <<>>
      THEN << [line |-> "MISMATCH", field |-> "any", ids |-> mismatches] >>
      ELSE << [line |-> "match", field |-> "none", ids |-> <<>>] >>

\* handleTestSwapFeature: the test ends before step 2 with fewer than two
\* employees or fewer than two shifts
testSwapFeatureReport ==
  LET shiftEmployeeIds == arrayFromSet(employeeIds(getDocs(shifts)))
      swapsData == getDocs(swapRequests)
  IN  IF Cardinality(Employees) < 2 \/ Cardinality(shifts) < 2
      THEN << [line |-> "not enough", field |-> "none", ids |-> <<>>] >>
      ELSE IF Len(swapsData) > 0
      THEN featureMismatchLines(shiftEmployeeIds, swapsData)
      ELSE <<>>

\* the characters of the shift types
typeChars(type) ==
  CASE type = "day"       -> <<"d","a","y">>
    [] type = "afternoon" -> <<"a","f","t","e","r","n","o","o","n">>
    [] type = "night"     -> <<"n","i","g","h","t">>

\* line 694: `${shift.date}-${shift.type}-${shift.employeeId}`
dupeKey(shift) ==
  charsOf(shift.date) \o <<"-">> \o typeChars(shift.type) \o <<"-">>
     \o shift.employeeId

\* lines 692-699: the groups of shifts of one key that have more than one
\* member, in the order of their first shift
dupesFound(q) ==
  LET keys == arrayFromSet([i \in 1..Len(q) |-> dupeKey(q[i])])
      group(k) == {i \in 1..Len(q) : dupeKey(q[i]) = k}
      many == {i \in 1..Len(keys) : Cardinality(group(keys[i])) > 1}
      at == CHOOSE f \in [1..Cardinality(many) -> many] :
               \A i, j \in 1..Cardinality(many) : i < j => f[i] < f[j]
  IN  [i \in 1..Cardinality(many) |->
         LET g == group(keys[at[i]])
             head == q[CHOOSE m \in g : \A n \in g : m <= n]
         IN  [line |-> "duplicate", employeeId |-> head.employeeId,
              employeeName |-> head.employeeName, date |-> head.date,
              entries |-> Cardinality(g)]]

\* handleCheckShiftsByEmployee, lines 598-604 and 691-708: the lines of the
\* duplicate check
checkShiftsReport ==
  IF Cardinality(shifts) = 0
  THEN << [line |-> "no shifts"] >>
  ELSE IF dupesFound(getDocs(shifts)) # <<>>
  THEN dupesFound(getDocs(shifts))
  ELSE << [line |-> "no duplicates"] >>

\* a diagnostic tab run: its console output, with the collections it read
diagnose(tab, report) ==
  /\ result' = [call |-> tab, shifts |-> shifts, swaps |-> swapRequests,
                report |-> report]
  /\ UNCHANGED <<users, shifts, swapRequests, activityLogs, nextUser,
                 nextShift, nextRequest, moves, inbox, selectedShift, tasks,
                 responses, finished, createdOwner, cancelled, lastSnapshot,
                 lookups, calls>>

handleTestSwapRequests == diagnose("handleTestSwapRequests", testSwapRequestsReport)

handleTestSwapFeature == diagnose("handleTestSwapFeature", testSwapFeatureReport)

handleCheckShiftsByEmployee ==
  diagnose("handleCheckShiftsByEmployee", checkShiftsReport)

\* addShift: the document of a shift of employee name, stored as number n
storedShift(n, name, date, type) ==
  [id |-> ShiftDocId(n), employeeId |-> shortId(name), employeeName |-> name,
   date |-> date, type |-> type, startTime |-> SHIFT_TIMES[type].start,
   endTime |-> SHIFT_TIMES[type].end]

\* shifts a store may hold: for john a day and an afternoon shift on one
\* date and a second day shift on it, and a day shift for sarah
DiagnosedShifts ==
  { storedShift(2, JohnSmith, Dates[1], "day"),
    storedShift(3, JohnSmith, Dates[1], "afternoon"),
    storedShift(4, SarahJohnson, Dates[1], "day"),
    storedShift(5, JohnSmith, Dates[1], "day") }

\* requests a store may hold: between short ids in either direction, and
\* one whose recipient is stored under the durable account id
DiagnosedRequests ==
  { [id |-> RequestDocId(1),
     fromEmployeeId |-> shortId(JohnSmith), fromEmployeeName |-> JohnSmith,
     toEmployeeId |-> UserDocId(2), toEmployeeName |-> SarahJohnson,
     shiftId |-> ShiftDocId(2), shift |-> NoShift, status |-> "pending"],
    [id |-> RequestDocId(2),
     fromEmployeeId |-> shortId(JohnSmith), fromEmployeeName |-> JohnSmith,
     toEmployeeId |-> shortId(SarahJohnson), toEmployeeName |-> SarahJohnson,
     shiftId |-> ShiftDocId(2), shift |-> NoShift, status |-> "pending"],
    [id |-> RequestDocId(3),
     fromEmployeeId |-> shortId(SarahJohnson), fromEmployeeName |-> SarahJohnson,
     toEmployeeId |-> shortId(JohnSmith), toEmployeeName |-> JohnSmith,
     shiftId |-> ShiftDocId(4), shift |-> NoShift, status |-> "pending"] }

\* the seeded accounts, any of the shifts and requests above
InitDiagnosed ==
  /\ users = seedUsers(1)
  /\ shifts \in SUBSET DiagnosedShifts
  /\ swapRequests \in SUBSET DiagnosedRequests
  /\ activityLogs = EmptyBag
  /\ nextUser = 1 + Len(mockUsers)
  /\ nextShift = 2 + Cardinality(DiagnosedShifts)
  /\ nextRequest = 1 + Cardinality(DiagnosedRequests)
  /\ moves = 0
  /\ inbox = [u \in {v \in seedUsers(1) : v.role = "employee"} |-> {}]
  /\ selectedShift =
       [u \in {v \in seedUsers(1) : v.role = "employee"} |-> NoShift]
  /\ tasks = {}
  /\ responses = 0
  /\ finished = {}
  /\ createdOwner = {}
  /\ InitIo

NextDiagnose ==
  \/ handleTestSwapRequests
  \/ handleTestSwapFeature
  \/ handleCheckShiftsByEmployee

SpecDiagnose == InitDiagnosed /\ [][NextDiagnose]_vars

----------------------------------------------------------------------------
(* Requests on a generated schedule. *)

\* the seeded accounts with a schedule as Generate & Seed stores it (shifts
\* under short identifiers; here the shift of john on the first date) and
\* no swap request yet
InitRoster ==
  /\ users = seedUsers(1)
  /\ shifts = {storedShift(1, JohnSmith, Dates[1], "day")}
  /\ swapRequests = {}
  /\ activityLogs = EmptyBag
  /\ nextUser = 1 + Len(mockUsers)
  /\ nextShift = 2
  /\ nextRequest = 1
  /\ moves = 0
  /\ inbox = [u \in {v \in seedUsers(1) : v.role = "employee"} |-> {}]
  /\ selectedShift =
       [u \in {v \in seedUsers(1) : v.role = "employee"} |-> NoShift]
  /\ tasks = {}
  /\ responses = 0
  /\ finished = {}
  /\ createdOwner = {}
  /\ InitIo

NextRoster ==
  \/ CreateStep
  \/ RequestStep

SpecRoster == InitRoster /\ [][NextRoster]_vars

----------------------------------------------------------------------------
(* Responses to the requests the subscription delivers, among them requests
   stored without an embedded shift. *)

\* handleSwapResponse on a request of the inbox, and its awaited writes
AnswerStep ==
  \/ \E u \in DOMAIN inbox, accept \in BOOLEAN :
        \E r \in inbox[u] : startSwapResponse(u, r, accept)
  \/ \E t \in tasks, ok \in BOOLEAN : awaitUpdateShift(t, ok)
  \/ \E t \in tasks, ok \in BOOLEAN : awaitUpdateSwapRequest(t, ok)
  \/ \E t \in tasks, ok \in BOOLEAN : awaitAddActivityLog(t, ok)

NextAnswer ==
  \/ SnapshotStep
  \/ LookupStep
  \/ CallbackStep
  \/ AnswerStep

SpecAnswer == InitStored /\ [][NextAnswer]_vars

----------------------------------------------------------------------------
(* The swap protocol in a team of three employees. *)

EmmaWilson == <<"E","m","m","a"," ","W","i","l","s","o","n">>

\* the account handleSignup stores for Emma Wilson after the seeding
emma ==
  [id |-> UserDocId(1 + Len(mockUsers)), email |-> Email(<<"e","m","m","a">>),
   name |-> EmmaWilson, role |-> "employee"]

\* the seeded accounts and emma, a schedule as Generate & Seed stores it (the
\* shift of john on the first date), no swap request left of the seeded ones
InitTeam ==
  /\ users = seedUsers(1) \cup {emma}
  /\ shifts = {storedShift(1, JohnSmith, Dates[1], "day")}
  /\ swapRequests = {}
  /\ activityLogs = EmptyBag
  /\ nextUser = 2 + Len(mockUsers)
  /\ nextShift = 2
  /\ nextRequest = 1 + Len(mockSwapRequests)
  /\ moves = 0
  /\ inbox = [u \in {v \in seedUsers(1) \cup {emma} : v.role = "employee"}
                |-> {}]
  /\ selectedShift =
       [u \in {v \in seedUsers(1) \cup {emma} : v.role = "employee"}
          |-> NoShift]
  /\ tasks = {}
  /\ responses = 0
  /\ finished = {}
  /\ createdOwner = {}
  /\ InitIo

NextTeam ==
  \/ DropStep
  \/ DeleteStep
  \/ RequestStep
  \/ RespondStep

SpecTeam == InitTeam /\ [][NextTeam]_vars

----------------------------------------------------------------------------
(* shiftGenerator: generateBalancedShifts.  A Date is its time value, here
   in hours since the midnight (UTC) that begins the first date of the
   calendar; local time is that value plus the offset of the time zone. *)

JessicaMartinez == <<"J","e","s","s","i","c","a"," ","M","a","r","t","i","n","e","z">>
MikeDavis       == <<"M","i","k","e"," ","D","a","v","i","s">>
RachelTaylor    == <<"R","a","c","h","e","l"," ","T","a","y","l","o","r">>
DavidLee        == <<"D","a","v","i","d"," ","L","e","e">>
AlexBrown       == <<"A","l","e","x"," ","B","r","o","w","n">>

\* EMPLOYEES
EMPLOYEES ==
  << [id |-> <<"j","e","s","s","i","c","a">>, name |-> JessicaMartinez],
     [id |-> <<"s","a","r","a","h">>,         name |-> SarahJohnson],
     [id |-> <<"e","m","m","a">>,             name |-> EmmaWilson],
     [id |-> <<"m","i","k","e">>,             name |-> MikeDavis],
     [id |-> <<"j","o","h","n">>,             name |-> JohnSmith],
     [id |-> <<"r","a","c","h","e","l">>,     name |-> RachelTaylor],
     [id |-> <<"d","a","v","i","d">>,         name |-> DavidLee],
     [id |-> <<"a","l","e","x">>,             name |-> AlexBrown] >>

\* the values Math.floor(Math.random() * (i + 1)) takes in one shuffle, for
\* i = 7 .. 1: always i (nothing moves), always 0, always i - 1
RandomDraws ==
  { [i \in 1..7 |-> i], [i \in 1..7 |-> 0], [i \in 1..7 |-> i - 1] }

\* [arr[i], arr[j]] = [arr[j], arr[i]], the indices counted from 0
swapped(arr, i, j) ==
  [k \in 1..Len(arr) |-> IF k = i + 1 THEN arr[j + 1]
                         ELSE IF k = j + 1 THEN arr[i + 1]
                         ELSE arr[k]]

\* shuffleArray of an array of eight elements: the loop from i = 7 down to
\* i = 1, j[i] being the index drawn in round i
shuffleArray(array, j) ==
  LET a7 == swapped(array, 7, j[7])
      a6 == swapped(a7, 6, j[6])
      a5 == swapped(a6, 5, j[5])
      a4 == swapped(a5, 4, j[4])
      a3 == swapped(a4, 3, j[3])
      a2 == swapped(a3, 2, j[2])
  IN  swapped(a2, 1, j[1])

\* one element of the assignments array
assignment(employee, type) ==
  [employeeId |-> employee.id, employeeName |-> employee.name, type |-> type]

\* generateDayAssignments: shuffled[0], shuffled[1] day; shuffled[2],
\* shuffled[3] afternoon; shuffled[4] night
generateDayAssignments(j) ==
  LET shuffled == shuffleArray(EMPLOYEES, j)
  IN  << assignment(shuffled[1], "day"), assignment(shuffled[2], "day"),
         assignment(shuffled[3], "afternoon"),
         assignment(shuffled[4], "afternoon"),
         assignment(shuffled[5], "night") >>

\* the longest range of dates tried, in days
MaxDays == 4

\* the time zones of the host, each with the calendar it is tried on: the
\* ISO dates of MaxDays consecutive days, the offset of local time from UTC
\* in hours before and after the zone's transition, and the hour of the
\* transition.  UTC has none; in America/New_York clocks go forward on
\* 2024-03-10 at 07:00 UTC and back on 2024-11-03 at 06:00 UTC
TimeZones ==
  { [zone |-> "UTC",
     calendar |-> <<"2024-11-15", "2024-11-16", "2024-11-17", "2024-11-18">>,
     before |-> 0, after |-> 0, at |-> 0],
    [zone |-> "America/New_York",
     calendar |-> <<"2024-03-09", "2024-03-10", "2024-03-11", "2024-03-12">>,
     before |-> 0 - 5, after |-> 0 - 4, at |-> 24 + 7],
    [zone |-> "America/New_York",
     calendar |-> <<"2024-11-02", "2024-11-03", "2024-11-04", "2024-11-05">>,
     before |-> 0 - 4, after |-> 0 - 5, at |-> 24 + 6] }

\* new Date('YYYY-MM-DD'): a date-only string is midnight UTC of that date
newDate(tz, date) ==
  24 * ((CHOOSE i \in 1..Len(tz.calendar) : tz.calendar[i] = date) - 1)

\* the offset of local time at time value t
offsetAt(tz, t) == IF t < tz.at THEN tz.before ELSE tz.after

\* the time value of a local time; a local time that occurs twice or not
\* at all is read with the offset before the transition
utcOf(tz, local) ==
  IF local - tz.before < tz.at THEN local - tz.before
  ELSE IF local - tz.after >= tz.at THEN local - tz.after
  ELSE local - tz.before

\* currentDate.setDate(currentDate.getDate() + 1): the local date moves on
\* by one day, the local time of day is kept
nextLocalDay(tz, t) == utcOf(tz, t + offsetAt(tz, t) + 24)

\* currentDate.toISOString().split('T')[0]: the UTC date of the time value
\* (the last date of the calendar stands for every later one)
dateString(tz, t) ==
  IF t \div 24 + 1 <= Len(tz.calendar) THEN tz.calendar[t \div 24 + 1]
  ELSE tz.calendar[Len(tz.calendar)]

\* lines 106-118: the shift objects of one day
shiftObjects(date, dayAssignments) ==
  [i \in 1..Len(dayAssignments) |->
     [id |-> <<>>, date |-> date,
      employeeId |-> dayAssignments[i].employeeId,
      employeeName |-> dayAssignments[i].employeeName,
      type |-> dayAssignments[i].type,
      startTime |-> SHIFT_TIMES[dayAssignments[i].type].start,
      endTime |-> SHIFT_TIMES[dayAssignments[i].type].end]]

\* generateBalancedShifts(startDate, endDate), lines 94-99: the loop is
\* about to test its condition for the first time
generatorCall(tz, startDate, endDate) ==
  [call |-> "generateBalancedShifts", tz |-> tz, startDate |-> startDate,
   endDate |-> endDate, end |-> newDate(tz, endDate),
   currentDate |-> newDate(tz, startDate), shifts |-> <<>>,
   returned |-> FALSE]

\* lines 101-121: one round of the loop, j being the draws of its shuffle
generateDay(j) ==
  /\ result.call = "generateBalancedShifts"
  /\ ~result.returned
  /\ result.currentDate <= result.end
  /\ result' = [result EXCEPT
       !.shifts = @ \o shiftObjects(dateString(result.tz, result.currentDate),
                                    generateDayAssignments(j)),
       !.currentDate = nextLocalDay(result.tz, @)]
  /\ UNCHANGED <<users, shifts, swapRequests, activityLogs, nextUser,
                 nextShift, nextRequest, moves, inbox, selectedShift, tasks,
                 responses, finished, createdOwner, cancelled, lastSnapshot,
                 lookups, calls>>

\* line 123: the loop has ended and the shifts are returned
returnShifts ==
  /\ result.call = "generateBalancedShifts"
  /\ ~result.returned
  /\ result.currentDate > result.end
  /\ result' = [result EXCEPT !.returned = TRUE]
  /\ UNCHANGED <<users, shifts, swapRequests, activityLogs, nextUser,
                 nextShift, nextRequest, moves, inbox, selectedShift, tasks,
                 responses, finished, createdOwner, cancelled, lastSnapshot,
                 lookups, calls>>

\* the Diagnostic page calls the generator on the seeded accounts, with a
\* start date and an end date of the calendar of the host's time zone
InitGenerate ==
  /\ users = seedUsers(1)
  /\ shifts = seedShifts(1, 1)
  /\ swapRequests = seedSwapRequests(1, 1, 1)
  /\ activityLogs = seedActivityLogs(1)
  /\ nextUser = 1 + Len(mockUsers)
  /\ nextShift = 1 + Len(mockShifts)
  /\ nextRequest = 1 + Len(mockSwapRequests)
  /\ moves = 0
  /\ inbox = [u \in {v \in seedUsers(1) : v.role = "employee"} |-> {}]
  /\ selectedShift =
       [u \in {v \in seedUsers(1) : v.role = "employee"} |-> NoShift]
  /\ tasks = {}
  /\ responses = 0
  /\ finished = {}
  /\ createdOwner = ownersOf(seedSwapRequests(1, 1, 1), seedShifts(1, 1))
  /\ cancelled = {}
  /\ lastSnapshot = {}
  /\ lookups = {}
  /\ calls = {}
  /\ result \in UNION {{generatorCall(tz, tz.calendar[a], tz.calendar[b]) :
                           a \in 1..MaxDays \cap DOMAIN tz.calendar,
                           b \in 1..MaxDays \cap DOMAIN tz.calendar} :
                         tz \in TimeZones}

NextGenerate ==
  \/ \E j \in RandomDraws : generateDay(j)
  \/ returnShifts

SpecGenerate == InitGenerate /\ [][NextGenerate]_vars

----------------------------------------------------------------------------
(* Properties of the swap protocol and of the stored identifiers. *)

Terminal == {"accepted", "declined"}

\* the handler of task t takes a step
steps(t) == t \in tasks /\ t \notin tasks'

\* the handler of task t ends with its success toast
succeeds(t) ==
  /\ steps(t)
  /\ t.pc = "addActivityLog"
  /\ activityLogs' # activityLogs

\* the stored shifts a request refers to
referenced(coll, request) == {s \in coll : s.id = request.shiftId}

\* the account the request names as its recipient
isRecipient(u, request) == u.name = request.toEmployeeName

\* C1: the stored status of a swap request only ever changes from pending to
\* accepted or declined; an accepted or declined request keeps its status
\* whatever the interleaving of sessions
C1_StatusOnlyLeavesPending ==
  [][\A r \in swapRequests : \A r2 \in swapRequests' :
        (r2.id = r.id /\ r2.status # r.status)
           => (r.status = "pending" /\ r2.status \in Terminal)]_vars

\* C2: a response issued when the stored status of the request is already
\* accepted or declined (the inbox copy may be stale and still pending)
\* changes neither the stored requests nor the shifts
C2_TerminalResponseRejected ==
  [][\A t \in tasks :
        (steps(t) /\ t.stored \in Terminal)
           => (swapRequests' = swapRequests /\ shifts' = shifts)]_vars

C4_ShortIdsOnly ==
  /\ \A r \in swapRequests :
        /\ r.fromEmployeeId = shortId(r.fromEmployeeName)
        /\ r.toEmployeeId = shortId(r.toEmployeeName)
  /\ \A s \in shifts : s.employeeId = shortId(s.employeeName)

\* C5 as stated: when a pending request is declined, the referenced shift
\* has the owner the store held for it when the request was created
C5_OwnerAsAtCreation ==
  [][\A t \in tasks :
        (steps(t) /\ ~t.accept /\ t.stored = "pending"
           /\ t.pc = "updateSwapRequest" /\ swapRequests' # swapRequests)
           => \A s \in referenced(shifts', t.request) :
                 \A c \in createdOwner :
                    c.id = t.request.id => s.employeeId = c.owner]_vars

\* C5 amended: a decline performs no write to the shifts, and its status
\* update stores declined: the owner of the referenced shift after the
\* decline is the owner it had just before the decline
C5_DeclineWritesNoShift ==
  [][\A t \in tasks :
        (steps(t) /\ ~t.accept)
           => /\ shifts' = shifts
              /\ ~t.wroteShift
              /\ (swapRequests' # swapRequests
                    => storedStatus(t.request.id)' = "declined")]_vars

\* C5 witness: a decline of a pending request has ended with its toast and
\* the stored request is declined
C5_Witness ==
  \E f \in finished :
     /\ ~f.accept /\ f.toast = "Swap Declined" /\ f.stored = "pending"
     /\ storedStatus(f.request.id) = "declined"
     /\ referenced(shifts, f.request) # {}

\* C6: no response that has ended leaves the shift transferred to the
\* recipient while the stored request is still pending
C6_TransferAndStatusAtomic ==
  \A f \in finished :
     ~ /\ f.wroteShift
       /\ ~f.wroteStatus
       /\ storedStatus(f.request.id) = "pending"
       /\ \E s \in referenced(shifts, f.request) :
             /\ s.employeeId = f.request.toEmployeeId
             /\ s.employeeId # f.request.shift.employeeId

\* C7: no stored swap request has the same fromEmployeeId and toEmployeeId
C7_NoSelfSwap ==
  \A r \in swapRequests : r.fromEmployeeId # r.toEmployeeId

\* C8: the stored status of a request is changed only by a response of the
\* session of the account the request names as its recipient
C8_OnlyRecipientResponds ==
  [][\A t \in tasks :
        (steps(t) /\ swapRequests' # swapRequests)
           => isRecipient(t.user, t.request)]_vars

\* C9: no two stored shifts have the same employeeId and the same date
C9_OneShiftPerEmployeePerDay ==
  \A s1 \in shifts : \A s2 \in shifts :
     (s1.employeeId = s2.employeeId /\ s1.date = s2.date) => s1.id = s2.id

\* C10: no two employee accounts have the same short identifier
C10_ShortIdsUnique ==
  \A u1 \in Employees : \A u2 \in Employees :
     shortId(u1.name) = shortId(u2.name) => u1.id = u2.id

----------------------------------------------------------------------------
(* Properties of the listeners, of the queries and of the short identifier. *)

\* the display names of the accounts of the model
Names == {JohnSmith, SarahJohnson, JohnDoe}

\* the request with the n-th id is stored as pending by handleSwapConfirm
\* and names nm as its requester or its recipient
persistedFor(n, nm) ==
  \E r \in swapRequests :
     /\ r.id = RequestDocId(n)
     /\ r.status = "pending"
     /\ r.fromEmployeeId = shortId(r.fromEmployeeName)
     /\ r.toEmployeeId = shortId(r.toEmployeeName)
     /\ nm \in {r.fromEmployeeName, r.toEmployeeName}

\* the inbox of every session of the account named nm holds the request
\* with the n-th id
observedBy(n, nm) ==
  \A u \in DOMAIN inbox :
     u.name = nm => \E c \in inbox[u] : c.id = RequestDocId(n)

\* C11: once a swap request is stored as pending, the listener of its
\* requester and the listener of its recipient each deliver a batch that
\* contains it
C11_BothPartiesObserve ==
  \A n \in 1..MaxRequests : \A nm \in Names :
     persistedFor(n, nm) ~> observedBy(n, nm)

\* C12: the subscriber callback is never called after the subscription was
\* cancelled, also when lookups of a snapshot were in flight at that moment
C12_NoCallAfterCancel == \A c \in calls : ~c.afterCancel

\* the ids of a set of documents
ids(docs) == {d.id : d \in docs}

\* the request with that id is in the batch, its shift absent
shiftAbsent(batch, id) == \E r \in batch : r.id = id /\ r.shift = NoShift

\* C13: the callback is called only when no lookup of its snapshot is
\* outstanding: every request of the snapshot stored without a shift has had
\* its lookup end, with the shift set or with a failure; and the batch holds
\* every request of the snapshot
C13_CallbackAfterAllLookups ==
  \A c \in calls :
     /\ c.outstanding = {}
     /\ ids(c.batch) = ids(c.snapshot)
     /\ \A r \in c.snapshot :
           needsLookup(r) =>
              \/ r.id \in c.failed
              \/ \E b \in c.batch : b.id = r.id /\ b.shift # NoShift

\* C13 witness: a batch was delivered for a snapshot of two requests stored
\* without a shift, after both lookups ended
C13_Witness ==
  \E c \in calls :
     /\ Cardinality({r \in c.snapshot : needsLookup(r)}) = 2
     /\ c.outstanding = {}
     /\ inbox[c.user] = c.batch

\* C14: a lookup that finds no shift or is rejected leaves its request in
\* the batch with the shift absent, and the snapshot is still delivered whole:
\* a settling lookup keeps the handler of the snapshot, with every request in
\* it, and the handler ends only by calling the callback with that batch
C14_FailedLookupStillDelivered ==
  [][\A t \in lookups :
        t \notin lookups' =>
           \/ \E t2 \in lookups' :
                 /\ t2.user = t.user /\ t2.snapshot = t.snapshot
                 /\ ids(t2.batch) = ids(t.snapshot)
                 /\ \A id \in t2.failed : shiftAbsent(t2.batch, id)
           \/ \E c \in calls' :
                 /\ c.user = t.user /\ c.snapshot = t.snapshot
                 /\ c.batch = t.batch /\ t.outstanding = {}
                 /\ ids(c.batch) = ids(c.snapshot)
                 /\ \A id \in c.failed : shiftAbsent(c.batch, id)]_vars

\* C14 witness: a batch was delivered in which one request has its shift
\* absent after a failed lookup and another has the shift its lookup found
C14_Witness ==
  \E c \in calls :
     /\ \E id \in c.failed : shiftAbsent(c.batch, id)
     /\ \E r \in c.snapshot :
           needsLookup(r) /\ \E b \in c.batch : b.id = r.id /\ b.shift # NoShift
     /\ inbox[c.user] = c.batch

\* C15: a response for a request id that the store or the local list of the
\* session does not hold ends with the error toast, never without a toast
C15_MissingRequestFailsLoudly ==
  \A f \in finished :
     /\ f.toast # "none"
     /\ f.stored = "missing" => f.toast = "Error"

\* the activity log has an entry of that type written by the session of the
\* account with that name
logged(type, name) ==
  \E e \in BagToSet(activityLogs) : e.type = type /\ e.userName = name

\* C16: every stored swap request has a swap_requested entry of its
\* requester in the activity log and, once no response is in progress,
\* every accepted or declined request has a swap_accepted or swap_declined
\* entry of a session that answered it
C16_EveryTransitionLogged ==
  /\ \A r \in swapRequests : logged("swap_requested", r.fromEmployeeName)
  /\ tasks = {} =>
        \A r \in swapRequests :
           /\ r.status = "accepted" =>
                 \E u \in DOMAIN inbox : logged("swap_accepted", u.name)
           /\ r.status = "declined" =>
                 \E u \in DOMAIN inbox : logged("swap_declined", u.name)

\* the last call of getShiftsByEmployee returned a list
returned == result.call = "getShiftsByEmployee" /\ result.outcome = "returns"

\* the dates of the list never go back
dateAscending(list) ==
  \A i, j \in 1..Len(list) :
     i < j => ~lessChars(charsOf(list[j].date), charsOf(list[i].date))

\* C17: the list getShiftsByEmployee(s) returns, by the ordered query or by
\* the fallback, holds each shift the store has under owner s exactly once
\* and is in ascending order of date
C17_OwnedShiftReturnedOnce ==
  returned =>
     /\ \A d \in result.store :
           d.employeeId = result.employeeId =>
              Cardinality({i \in 1..Len(result.list) : result.list[i] = d}) = 1
     /\ dateAscending(result.list)

\* C17 witness: the fallback returned the shift handleCreateShift stored,
\* in a list of two shifts of different dates
C17_Witness ==
  /\ returned
  /\ result.path = "fallback"
  /\ Len(result.list) = 2
  /\ result.list[1].date # result.list[2].date
  /\ \E i \in 1..2 :
        /\ result.list[i].id = ShiftDocId(1 + Len(mockShifts))
        /\ result.list[i].employeeId = shortId(result.list[i].employeeName)

\* C18: on the same store and for the same owner the fallback returns the
\* sequence the ordered query returns, shifts of one date in the same order
C18_FallbackSameSequence ==
  \A e \in QueryIds :
     queryResult(e, "failed-precondition", "ok").list
        = queryResult(e, "ok", "ok").list

\* C18 witness: the fallback returned two shifts of one owner and one date,
\* in the order of the ordered query
C18_Witness ==
  /\ returned
  /\ result.path = "fallback"
  /\ Len(result.list) = 2
  /\ result.list[1].date = result.list[2].date
  /\ result.list = orderedQuery(result.store, result.employeeId)

\* C19: the fallback is used only after the ordered query failed with
\* failed-precondition; any other error of the ordered query, and any error
\* of the fallback query, is thrown to the caller as it is and no list is
\* returned
C19_FallbackOnlyOnMissingIndex ==
  result.call = "getShiftsByEmployee" =>
     /\ result.path = "fallback" => result.ordered = "failed-precondition"
     /\ result.ordered \notin {"ok", "failed-precondition"} =>
           /\ result.outcome = "throws"
           /\ result.error = result.ordered
           /\ result.list = <<>>
     /\ (result.ordered = "failed-precondition" /\ result.fallback # "ok") =>
           /\ result.outcome = "throws"
           /\ result.error = result.fallback
           /\ result.list = <<>>

\* C19 witness: the ordered query failed with failed-precondition on a store
\* with a shift of the owner, the fallback query failed too, and its error
\* reached the caller
C19_Witness ==
  /\ result.call = "getShiftsByEmployee"
  /\ result.ordered = "failed-precondition"
  /\ result.fallback = "unavailable"
  /\ result.outcome = "throws"
  /\ result.error = "unavailable"
  /\ whereEmployeeId(result.store, result.employeeId) # {}

\* the whitespace characters of the names tried
Whitespace == {" ", "\t"}

\* the first whitespace-delimited token: the characters before the first
\* whitespace character
firstToken(s) ==
  LET ws == {i \in 1..Len(s) : s[i] \in Whitespace}
  IN  IF ws = {} THEN s
      ELSE SubSeq(s, 1, (CHOOSE i \in ws : \A j \in ws : i <= j) - 1)

\* C20: at every call site the short identifier of a display name is the
\* first whitespace-delimited token of the name, lowercased
C20_FirstTokenLowercased ==
  result.call = "shortId" =>
     result.value = toLowerCase(firstToken(result.name))

----------------------------------------------------------------------------
(* Properties of the diagnostic page. *)

\* the identifiers the stored requests refer to
swapIds(requests) ==
  {r.fromEmployeeId : r \in requests} \cup {r.toEmployeeId : r \in requests}

\* the identifiers the stored shifts are owned by
shiftOwners(coll) == {s.employeeId : s \in coll}

\* how many times the mismatch lines of a report name id
timesNamed(report, id) ==
  Cardinality({p \in UNION {{<<i, j>> : j \in 1..Len(report[i].ids)}
                              : i \in 1..Len(report)} :
                 /\ report[p[1]].line = "MISMATCH"
                 /\ report[p[1]].ids[p[2]] = id})

\* C21: the swap consistency check names exactly the identifiers that are the
\* fromEmployeeId or toEmployeeId of some stored swap request and the
\* employeeId of no stored shift, and names each of them once; so it names
\* the one durable account id of a request when john and sarah own shifts,
\* and names nothing when every swap identifier owns a shift
C21_MismatchesNamedOnce ==
  result.call \in {"handleTestSwapRequests", "handleTestSwapFeature"} =>
     \A id \in swapIds(result.swaps) \cup shiftOwners(result.shifts) :
        timesNamed(result.report, id) =
           IF id \in swapIds(result.swaps) \ shiftOwners(result.shifts)
           THEN 1 ELSE 0

\* the shifts of one employee on one date
shiftsOn(coll, employeeId, date) ==
  {s \in coll : s.employeeId = employeeId /\ s.date = date}

\* the report has a duplicate line for the employee and the date
reportsDuplicate(report, employeeId, date) ==
  \E i \in 1..Len(report) :
     /\ report[i].line = "duplicate"
     /\ report[i].employeeId = employeeId
     /\ report[i].date = date

\* C22: the duplicate scan reports a duplicate for every (employeeId, date)
\* pair that has more than one shift, whatever the types of those shifts, and
\* reports no duplicate when every pair has at most one shift
C22_EveryDoubleBookingReported ==
  result.call = "handleCheckShiftsByEmployee" =>
     /\ \A s \in result.shifts :
           Cardinality(shiftsOn(result.shifts, s.employeeId, s.date)) > 1
              => reportsDuplicate(result.report, s.employeeId, s.date)
     /\ (\A s \in result.shifts :
            Cardinality(shiftsOn(result.shifts, s.employeeId, s.date)) <= 1)
           => \A i \in 1..Len(result.report) :
                 result.report[i].line # "duplicate"

----------------------------------------------------------------------------
(* Properties of creating and accepting swap requests. *)

\* C23: creating a swap request is rejected while a pending request of the
\* same (fromEmployeeId, toEmployeeId) pair exists: no two pending requests
\* of the store have the same pair
C23_OnePendingPerPair ==
  \A a, b \in swapRequests :
     /\ a.status = "pending" /\ b.status = "pending"
     /\ a.fromEmployeeId = b.fromEmployeeId
     /\ a.toEmployeeId = b.toEmployeeId
     => a.id = b.id

\* C24: whenever a respond marks a request accepted, the update of the
\* referenced shift's owner to the recipient has already been applied: no
\* response has written the status accepted, or reported the acceptance,
\* without having written the shift, also when the request delivered to the
\* recipient has no embedded shift
C24_AcceptedOnlyAfterTransfer ==
  /\ \A t \in tasks : t.accept /\ t.wroteStatus => t.wroteShift
  /\ \A f \in finished :
        f.accept /\ (f.wroteStatus \/ f.toast = "Swap Accepted")
           => f.wroteShift

\* the step in which the shift update of response t is applied and rewrites
\* the stored shift (a rejected update leaves the collection as it is)
appliesShiftUpdate(t) ==
  /\ t \in tasks
  /\ t.pc = "updateShift"
  /\ [t EXCEPT !.pc = "updateSwapRequest", !.wroteShift = TRUE] \in tasks'
  /\ t \notin tasks'
  /\ shifts' # shifts

\* C25: an accept transfers the shift only if the live shift record is still
\* owned by the request's requester at that moment: the shift update of an
\* accept is applied only to a shift whose stored employeeId is the request's
\* fromEmployeeId, so a shift moved meanwhile stays with its current owner
C25_TransferOnlyFromRequester ==
  [][\A t \in tasks :
        appliesShiftUpdate(t) =>
           \A s \in shifts :
              s.id = t.request.shift.id
                 => s.employeeId = t.request.fromEmployeeId]_vars

\* C26: at the moment a swap request is persisted, its shiftId refers to an
\* existing shift whose employeeId equals the request's fromEmployeeId, also
\* when another session reassigned or deleted the shift after the requester
\* opened the swap dialog
C26_PersistedForOwnShift ==
  [][\A r \in swapRequests' \ swapRequests :
        r.id \notin {q.id : q \in swapRequests} =>
           \E s \in shifts :
              s.id = r.shiftId /\ s.employeeId = r.fromEmployeeId]_vars

\* C27: an accept writes only the shift's employeeId and employeeName: the
\* step that applies the shift update of an accept leaves the id, date, type,
\* startTime and endTime of the shift as the store held them, and leaves
\* every other shift as it was
C27_AcceptWritesOwnerOnly ==
  [][\A t \in tasks :
        appliesShiftUpdate(t) =>
           /\ \A s \in shifts :
                 IF s.id = t.request.shift.id
                 THEN [s EXCEPT !.employeeId = t.request.toEmployeeId,
                                !.employeeName = t.request.toEmployeeName]
                         \in shifts'
                 ELSE s \in shifts'
           /\ {s.id : s \in shifts'} = {s.id : s \in shifts}]_vars

\* an accept has rewritten the owner of a shift whose date in the store is
\* not the date of the request's embedded shift
C27_Witness ==
  \E f \in finished :
     /\ f.wroteShift
     /\ \E s \in shifts :
           /\ s.id = f.request.shift.id
           /\ s.employeeId = f.request.toEmployeeId
           /\ s.date # f.request.shift.date

\* the step in which the shift update of response t is rejected: the
\* response leaves the update and has not written the shift
failsShiftUpdate(t) ==
  /\ t \in tasks
  /\ t.pc = "updateShift"
  /\ t \notin tasks'
  /\ [t EXCEPT !.pc = "updateSwapRequest", !.wroteShift = TRUE] \notin tasks'

\* C29: if the shift ownership update of an accept fails, the request's
\* status stays pending, no activity log entry is appended, and the failure,
\* not success, is reported to the acting user: the step of the rejected
\* update ends the response with the error toast and leaves the requests and
\* the activity log as they were
C29_FailedTransferReported ==
  [][\A t \in tasks :
        failsShiftUpdate(t) =>
           /\ swapRequests' = swapRequests
           /\ activityLogs' = activityLogs
           /\ \A u \in tasks' \ tasks : u.request.id # t.request.id
           /\ ended(t, "Error") \in finished'
           /\ \A f \in finished' \ finished : f.toast = "Error"]_vars

\* the shift update of an accept was rejected: the response ended with the
\* error toast, wrote neither shift nor status, the stored request is
\* pending and the activity log holds the entry of the request only
C29_Witness ==
  \E f \in finished :
     /\ f.accept /\ f.request.shift # NoShift
     /\ ~f.wroteShift /\ ~f.wroteStatus
     /\ f.toast = "Error"
     /\ storedStatus(f.request.id) = "pending"
     /\ BagCardinality(activityLogs) = 1

----------------------------------------------------------------------------
(* Properties of the generated schedule. *)

\* the dates from startDate to endDate inclusive
datesOfRange(tz, startDate, endDate) ==
  {tz.calendar[i] : i \in {k \in 1..Len(tz.calendar) :
      /\ (CHOOSE a \in 1..Len(tz.calendar) : tz.calendar[a] = startDate) <= k
      /\ k <= (CHOOSE b \in 1..Len(tz.calendar) : tz.calendar[b] = endDate)}}

\* the positions of the returned shifts of one date
onDate(list, date) == {i \in 1..Len(list) : list[i].date = date}

----------------------------------------------------------------------------
(* Properties of the order of the inbox batches. *)

\* the snapshot is the latest one the listener of the user has received
latest(user, docs) == [user |-> user, docs |-> docs] \in lastSnapshot

\* C30: inbox batches are delivered in the order of the snapshots that
\* produced them: once the batch of the latest snapshot of a subscription
\* has been delivered, no batch built from an older snapshot is delivered,
\* whatever the order in which the enrichment lookups complete
C30_BatchesInSnapshotOrder ==
  [][\A c \in calls' \ calls :
        (\E d \in calls : d.user = c.user /\ latest(d.user, d.snapshot))
           => latest(c.user, c.snapshot)']_vars

====
